---- MODULE Spec2Model ----
(***************************************************************************)
(* A model of the trip-prep backend, server/index.js: the Express service  *)
(* that keeps the people table and the gallery table in one SQLite file    *)
(* and the uploaded images in the uploads directory.                       *)
(*                                                                         *)
(* The store (people, gallery, files) outlives the process; the process    *)
(* (running, req) is started by Startup and ended by Stop.  The handlers   *)
(* of GET /people, PATCH /people/:id and GET /gallery are synchronous      *)
(* (better-sqlite3 is synchronous, Node runs one callback at a time), so   *)
(* each is one action.  POST /gallery/upload runs multer first, which      *)
(* streams the file to disk and only then calls the handler: it is several *)
(* steps, and other requests run between them.                             *)
(***************************************************************************)
EXTENDS Integers, Sequences, FiniteSets, Bags, TLC

VARIABLES
    running,    \* the Node process is up and listening
    people,     \* rows of table people, in rowid order
    gallery,    \* rows of table gallery, in rowid order
    files,      \* the uploads directory: a set of [name, from]
    clock,      \* the server's wall clock, in milliseconds
    patch,      \* the PATCH requests in flight, in the order their handlers
                \* will run: a sequence of [id, body]
    overlap,    \* the latest two PATCH requests that were in flight together,
                \* with the people table they met: <<[people, first, second]>>
    req,        \* the upload requests in flight: a bag of requests
    nUploads,   \* how many uploads multer has stored
    nIngested,  \* how many ingests have been answered with success
    crashed,    \* the process has ended with an upload in flight
    state,      \* the browser UI's state (src/App.jsx): budgetPerPerson, people
    res         \* the last response this process sent

\* The variables of the server.
serverVars == <<running, people, gallery, files, clock, patch, overlap, req, nUploads,
                nIngested, crashed, res>>

vars == <<running, people, gallery, files, clock, patch, overlap, req, nUploads, nIngested,
          crashed, res, state>>

(***************************************************************************)
(* Bounds of the model.                                                    *)
(***************************************************************************)
MaxUploads == 2

(***************************************************************************)
(* Small helpers.                                                          *)
(***************************************************************************)
MaxOf(S) == CHOOSE x \in S : \A y \in S : y <= x

Range(s) == {s[i] : i \in 1..Len(s)}

(***************************************************************************)
(* The people table.                                                       *)
(***************************************************************************)
\* The columns PATCH may set.
fields == <<"task_status", "transport_type", "eta", "payment_status">>

Columns == {"id", "name"} \cup Range(fields)

\* AUTOINCREMENT: one more than the largest rowid.  No statement of the
\* program deletes a row, so this is also what sqlite_sequence holds.
NextRowId(table) == IF table = <<>> THEN 1 ELSE MaxOf({table[i].id : i \in 1..Len(table)}) + 1

PersonRow(id, name, task, transport, eta, payment) ==
    [id |-> id, name |-> name, task_status |-> task, transport_type |-> transport,
     eta |-> eta, payment_status |-> payment]

InsertPerson(table, name, task, transport, eta, payment) ==
    Append(table, PersonRow(NextRowId(table), name, task, transport, eta, payment))

\* The seed without its test for an empty table.
MutSeedPeopleAlways(table) ==
    InsertPerson(InsertPerson(table, "Alice", "pending", "car", "", "unpaid"),
                 "Bob", "pending", "plane", "", "unpaid")

\* The seed with its two inserts in the other order.
MutSeedPeopleBobFirst(table) ==
    IF Len(table) = 0
    THEN InsertPerson(InsertPerson(table, "Bob", "pending", "plane", "", "unpaid"),
                      "Alice", "pending", "car", "", "unpaid")
    ELSE table

\* A module load that does not seed.
MutSeedPeopleSkipped(table) == table

\* The seed, run at module load when the table is empty.
SeedPeople(table) ==
    IF Len(table) = 0
    THEN InsertPerson(InsertPerson(table, "Alice", "pending", "car", "", "unpaid"),
                      "Bob", "pending", "plane", "", "unpaid")
    ELSE table

(***************************************************************************)
(* The browser UI's state (src/App.jsx, TripPrepApp).  Of a person the     *)
(* model keeps id, name, paid, amount and transport; of the state the      *)
(* budget per person and the people.                                       *)
(***************************************************************************)
UiPerson(id, name, transport) ==
    [id |-> id, name |-> name, paid |-> FALSE, amount |-> 0, transport |-> transport]

\* The first three of the default people; safeUUID gives each its own id.
defaultPeople ==
    <<UiPerson("uuid-1", "Bogdan", "Car"),
      UiPerson("uuid-2", "Rishabh", "Plane"),
      UiPerson("uuid-3", "Dav", "Car")>>

\* The initial value of usePersistedState(STORAGE_KEY, ...).
DefaultState == [budgetPerPerson |-> 150, people |-> defaultPeople]

\* A toggle that leaves the amount when the person becomes unpaid.
MutTogglePaidKeepsAmount(p, budgetPerPerson) ==
    [p EXCEPT !.paid = ~p.paid,
              !.amount = IF ~p.paid THEN budgetPerPerson ELSE p.amount]

\* { ...p, paid: !p.paid, amount: !p.paid ? state.budgetPerPerson : 0 }
TogglePaid(p, budgetPerPerson) ==
    [p EXCEPT !.paid = ~p.paid,
              !.amount = IF ~p.paid THEN budgetPerPerson ELSE 0]

\* markPaid's updater: prev.map((p) => (p.id === id ? {...} : p))
MarkPaidUpdater(prev, id, budgetPerPerson) ==
    [i \in 1..Len(prev) |->
        IF prev[i].id = id THEN TogglePaid(prev[i], budgetPerPerson) ELSE prev[i]]

\* updateField's updater: prev.map((p) => (p.id === id ? { ...p, [field]: value } : p))
UpdateFieldUpdater(prev, id, field, value) ==
    [i \in 1..Len(prev) |->
        IF prev[i].id = id THEN [prev[i] EXCEPT ![field] = value] ELSE prev[i]]

\* setPeople: setState((s) => ({ ...s, people: updater(s.people) })), as
\* the state it leaves.
setPeople(s, newPeople) == [s EXCEPT !.people = newPeople]

\* The button of a person's row is clicked.  The handler is the one of
\* the render of the present state, so state.budgetPerPerson in its closure
\* is the present budget.
markPaid(id) ==
    /\ state' = setPeople(state, MarkPaidUpdater(state.people, id, state.budgetPerPerson))
    /\ UNCHANGED serverVars

\* The amount of a person's row is edited.
updateField(id, field, value) ==
    /\ state' = setPeople(state, UpdateFieldUpdater(state.people, id, field, value))
    /\ UNCHANGED serverVars

\* The budget per person is edited in the settings.
setBudgetPerPerson(value) ==
    /\ state' = [state EXCEPT !.budgetPerPerson = value]
    /\ UNCHANGED serverVars

\* The ids the handlers are called with: the people's, and one of nobody.
UiIds == {"uuid-1", "uuid-2", "uuid-3", "uuid-0"}

\* Amounts typed into a row, and budgets typed into the settings.
UiAmounts == {0, 50, 150}

UiBudgets == {0, 150, 200}

NextUi ==
    \/ \E id \in UiIds : markPaid(id)
    \/ \E id \in UiIds, value \in UiAmounts : updateField(id, "amount", value)
    \/ \E value \in UiBudgets : setBudgetPerPerson(value)

(***************************************************************************)
(* Requests and responses.                                                 *)
(***************************************************************************)
\* A response: the status, the message of an error payload ("" when there is
\* none) and the JSON sent: the rows of a list, the one row or object of a
\* result, nothing for undefined.
NoResponse == [op |-> "none", status |-> 0, message |-> "", body |-> <<>>]

Response(op, status, message, body) ==
    [op |-> op, status |-> status, message |-> message, body |-> body]

Init ==
    /\ running = FALSE
    /\ people = <<>>
    /\ gallery = <<>>
    /\ files = {}
    /\ clock = 0
    /\ patch = <<>>
    /\ overlap = <<>>
    /\ req = EmptyBag
    /\ nUploads = 0
    /\ nIngested = 0
    /\ crashed = FALSE
    /\ res = NoResponse
    /\ state = DefaultState

\* Module load: create the tables if absent, seed, listen.
Startup ==
    /\ ~running
    /\ running' = TRUE
    /\ people' = SeedPeople(people)
    /\ res' = NoResponse
    /\ UNCHANGED <<gallery, files, clock, patch, overlap, req, nUploads, nIngested,
                 crashed, state>>

\* The process ends (exit, kill, crash): requests in flight are lost, the
\* database file and the uploads directory stay as they are.  Ending with
\* an upload in flight is a crash between its file write and its insert.
Stop ==
    /\ running
    /\ running' = FALSE
    /\ patch' = <<>>
    /\ overlap' = <<>>
    /\ req' = EmptyBag
    /\ crashed' = (crashed \/ req # EmptyBag)
    /\ UNCHANGED <<people, gallery, files, clock, nUploads, nIngested, res, state>>

MsPerSecond == 1000

\* The instants at which requests are served: one second, and the next.
Instants == {0, MsPerSecond}

\* Time passes.
Tick ==
    /\ \E t \in Instants : t > clock /\ clock' = t
    /\ UNCHANGED <<running, people, gallery, files, patch, overlap, req, nUploads,
                 nIngested, res, crashed, state>>

(***************************************************************************)
(* GET /people                                                             *)
(***************************************************************************)
SelectPeople(table) == table

GetPeople ==
    /\ running
    /\ res' = Response("GET /people", 200, "", SelectPeople(people))
    /\ UNCHANGED <<running, people, gallery, files, clock, patch, overlap, req,
                 nUploads, nIngested, crashed, state>>

(***************************************************************************)
(* PATCH /people/:id                                                       *)
(***************************************************************************)
\* Values a client supplies for each key.  The columns are TEXT and the
\* values strings: a new value for each column, and for eta and
\* payment_status the value the seed gives as well.
KeyVals ==
    [task_status |-> {"done"},
     transport_type |-> {"train"},
     eta |-> {"", "18:00"},
     payment_status |-> {"unpaid", "paid"}]

Absent == "<absent>"

Opt(key) == KeyVals[key] \cup {Absent}

\* The JSON object with the given value, or none, for each key.
Body(choice) ==
    [k \in {k \in DOMAIN choice : choice[k] # Absent} |-> choice[k]]

\* Bodies of the four columns' keys: any set of them, each with a value.
ColumnBodies ==
    {Body([task_status |-> t, transport_type |-> tr, eta |-> e, payment_status |-> p]) :
        t \in Opt("task_status"), tr \in Opt("transport_type"), e \in Opt("eta"),
        p \in Opt("payment_status")}

\* The same body carrying the keys name and id as well.
WithOtherKeys(body) ==
    [k \in DOMAIN body \cup {"name", "id"} |->
        IF k = "name" THEN "Mallory" ELSE IF k = "id" THEN "9" ELSE body[k]]

\* JSON bodies: those of the columns' keys, and the ones of at most one such
\* key with name and id added.
Bodies ==
    ColumnBodies \cup
    {WithOtherKeys(b) : b \in {c \in ColumnBodies : Cardinality(DOMAIN c) <= 1}}

\* :id as the WHERE clause compares it with the INTEGER column; 3 names no row.
IdParams == {1, 2, 3}

\* The loop over a list of fields that has name in it.
MutUpdatesWithName(body) ==
    SelectSeq(<<"name">> \o fields, LAMBDA f : f \in DOMAIN body)

\* for (const field of fields) if (field in req.body) updates.push(field):
\* the columns to set, in the order of fields.
Updates(body) == SelectSeq(fields, LAMBDA f : f \in DOMAIN body)

\* The values pushed in the reverse order of the columns.
MutParamsReversed(body, id) ==
    LET updates == SelectSeq(fields, LAMBDA f : f \in DOMAIN body)
        n == Len(updates)
    IN  [i \in 1..n |-> body[updates[n + 1 - i]]] \o <<id>>

\* ... params.push(req.body[field]); and after the loop params.push(id).
Params(body, id) ==
    LET updates == Updates(body)
    IN  [i \in 1..Len(updates) |-> body[updates[i]]] \o <<id>>

\* The UPDATE without its WHERE clause.
MutUpdatePeopleAllRows(table, updates, params) ==
    [i \in 1..Len(table) |->
        [col \in Columns |->
            IF \E k \in 1..Len(updates) : updates[k] = col
            THEN params[CHOOSE k \in 1..Len(updates) : updates[k] = col]
            ELSE table[i][col]]]

\* An UPDATE of the whole record: the columns the request does not name are
\* set to the empty string.
MutUpdatePeopleWholeRecord(table, updates, params) ==
    LET id == params[Len(updates) + 1]
        Set(row) ==
            [col \in {"id", "name"} \cup {fields[k] : k \in 1..Len(fields)} |->
                IF \E i \in 1..Len(updates) : updates[i] = col
                THEN params[CHOOSE i \in 1..Len(updates) : updates[i] = col]
                ELSE IF col \in {"id", "name"} THEN row[col] ELSE ""]
    IN  [i \in 1..Len(table) |-> IF table[i].id = id THEN Set(table[i]) ELSE table[i]]

\* REPLACE INTO instead of UPDATE: the row is deleted and inserted again,
\* under a new rowid.
MutUpdatePeopleReinsert(table, updates, params) ==
    LET id == params[Len(updates) + 1]
        Set(row) ==
            [col \in {"id", "name"} \cup {fields[k] : k \in 1..Len(fields)} |->
                IF \E i \in 1..Len(updates) : updates[i] = col
                THEN params[CHOOSE i \in 1..Len(updates) : updates[i] = col]
                ELSE IF col = "id" THEN 1 + Len(table) + row.id ELSE row[col]]
        hit == SelectSeq(table, LAMBDA p : p.id = id)
        rest == SelectSeq(table, LAMBDA p : p.id # id)
    IN  rest \o [i \in 1..Len(hit) |-> Set(hit[i])]

\* UPDATE people SET <updates[1]> = ?, ... WHERE id = ?, run with params:
\* the i-th parameter is bound to the i-th column, the last one to id.
UpdatePeople(table, updates, params) ==
    LET id == params[Len(updates) + 1]
        Set(row) ==
            [col \in Columns |->
                IF \E i \in 1..Len(updates) : updates[i] = col
                THEN params[CHOOSE i \in 1..Len(updates) : updates[i] = col]
                ELSE row[col]]
    IN  [i \in 1..Len(table) |-> IF table[i].id = id THEN Set(table[i]) ELSE table[i]]

\* The read-back without its WHERE clause: .get() returns the first row.
MutSelectPersonFirst(table, id) ==
    IF table = <<>> THEN <<>> ELSE <<table[1]>>

\* SELECT * FROM people WHERE id = ?  (.get(): the row, or undefined), as
\* the sequence of the rows found: one, or none.
SelectPerson(table, id) ==
    LET hit == SelectSeq(table, LAMBDA p : p.id = id)
    IN  IF hit = <<>> THEN <<>> ELSE <<hit[1]>>

\* A PATCH /people/:id arrives when no other is in flight: express.json()
\* reads and parses its body, and the handler runs next.
PatchArrives(id, body) ==
    /\ running
    /\ patch = <<>>
    /\ patch' = <<[id |-> id, body |-> body]>>
    /\ overlap' = <<>>
    /\ UNCHANGED <<running, people, gallery, files, clock, req, nUploads, nIngested,
                 res, crashed, state>>

\* A PATCH /people/:id arrives while another is in flight.  express.json()
\* calls the handler when the body's stream ends, which is before or after
\* the other request's stream does: the new request's handler runs first
\* (place 1) or second (place 2).
PatchArrivesToo(id, body, place) ==
    /\ running
    /\ Len(patch) = 1
    /\ patch' = IF place = 1 THEN <<[id |-> id, body |-> body]>> \o patch
                              ELSE patch \o <<[id |-> id, body |-> body]>>
    /\ overlap' = <<[people |-> people, first |-> patch'[1], second |-> patch'[2]]>>
    /\ UNCHANGED <<running, people, gallery, files, clock, req, nUploads, nIngested,
                 res, crashed, state>>

\* The handler, for the request whose body is parsed first.
Patch ==
    /\ running
    /\ patch # <<>>
    /\ LET id == patch[1].id
           body == patch[1].body
           updates == Updates(body)
       IN  IF Len(updates) = 0
           THEN /\ res' = Response("PATCH /people", 400, "No valid fields provided", <<>>)
                /\ UNCHANGED people
           ELSE /\ people' = UpdatePeople(people, updates, Params(body, id))
                /\ res' = Response("PATCH /people", 200, "", SelectPerson(people', id))
    /\ patch' = Tail(patch)
    /\ UNCHANGED <<running, gallery, files, clock, overlap, req, nUploads, nIngested,
                 crashed, state>>

(***************************************************************************)
(* File names.  A name is a sequence of characters, so that the extension  *)
(* is computed from it the way path.extname computes it.                   *)
(***************************************************************************)
\* The letters String.prototype.toLowerCase changes, each with its lower case.
LowerCaseOf ==
    ("A" :> "a") @@ ("B" :> "b") @@ ("C" :> "c") @@ ("D" :> "d") @@
    ("E" :> "e") @@ ("F" :> "f") @@ ("G" :> "g") @@ ("H" :> "h") @@
    ("I" :> "i") @@ ("J" :> "j") @@ ("K" :> "k") @@ ("L" :> "l") @@
    ("M" :> "m") @@ ("N" :> "n") @@ ("O" :> "o") @@ ("P" :> "p") @@
    ("Q" :> "q") @@ ("R" :> "r") @@ ("S" :> "s") @@ ("T" :> "t") @@
    ("U" :> "u") @@ ("V" :> "v") @@ ("W" :> "w") @@ ("X" :> "x") @@
    ("Y" :> "y") @@ ("Z" :> "z")

\* String.prototype.toLowerCase
toLowerCase(s) ==
    [i \in 1..Len(s) |-> IF s[i] \in DOMAIN LowerCaseOf THEN LowerCaseOf[s[i]] ELSE s[i]]

\* path.extname on a name without directory part (multer hands over the
\* base name): from the last "." to the end; empty when there is no ".",
\* when the only "." is the first character, and for "..".
extname(name) ==
    LET dots == {i \in 1..Len(name) : name[i] = "."}
    IN  IF dots = {} THEN <<>>
        ELSE LET startDot == MaxOf(dots)
             IN  IF startDot = 1 THEN <<>>
                 ELSE IF name[1] = "." /\ startDot = Len(name) /\ startDot = 2 THEN <<>>
                 ELSE SubSeq(name, startDot, Len(name))

allowed == {<<".", "j", "p", "g">>, <<".", "j", "p", "e", "g">>, <<".", "p", "n", "g">>}

\* multer's fileFilter: TRUE accepts the file, FALSE is cb(new Error(...)).
fileFilter(originalname) == toLowerCase(extname(originalname)) \in allowed

\* limits.fileSize, in bytes
FileSizeLimit == 5 * 1024 * 1024

(***************************************************************************)
(* The uploads directory and the gallery table.                            *)
(***************************************************************************)
\* filename(): Date.now() + '-' + random + ext, kept as its three parts.
StorageName(now, random, originalname) == <<now, random, extname(originalname)>>

\* What the write stream leaves at the path: the upload's bytes, named here
\* by the upload they come from.  A file already at that path is replaced.
WriteFile(dir, name, originalname) ==
    {f \in dir : f.name # name} \cup
    {[name |-> name, from |-> originalname]}

\* A storage engine that leaves the file where it is.
MutRemoveFileKeeps(dir, name) == dir

\* diskStorage._removeFile: fs.unlink(path)
RemoveFile(dir, name) == {f \in dir : f.name # name}

\* A url without scheme and host: /uploads/<name>.
MutUrlRelative(protocol, host, name) == <<"", "", "uploads", name>>

\* `${req.protocol}://${req.get('host')}/uploads/${req.file.filename}`
Url(protocol, host, name) == <<protocol, host, "uploads", name>>

\* CURRENT_TIMESTAMP has a resolution of one second.
CurrentTimestamp(now) == now \div MsPerSecond

\* INSERT OR REPLACE with filename as a key: a row of the same filename
\* is replaced.
MutInsertPhotoReplace(table, filename, url, now) ==
    LET rest == SelectSeq(table, LAMBDA row : row.filename # filename)
    IN  Append(rest, [id |-> (IF table = <<>> THEN 1 ELSE table[Len(table)].id + 1),
                      filename |-> filename, url |-> url,
                      uploaded_at |-> now \div MsPerSecond])

\* INSERT INTO gallery (filename, url) VALUES (?, ?)
InsertPhoto(table, filename, url, now) ==
    Append(table, [id |-> NextRowId(table), filename |-> filename, url |-> url,
                   uploaded_at |-> CurrentTimestamp(now)])

\* The query without DESC.
MutSelectGalleryAsc(table) ==
    LET n == Len(table)
        Before(j, i) ==
            \/ table[j].uploaded_at < table[i].uploaded_at
            \/ table[j].uploaded_at = table[i].uploaded_at /\ j < i
        Rank(i) == 1 + Cardinality({j \in 1..n : Before(j, i)})
    IN  [k \in 1..n |-> table[CHOOSE i \in 1..n : Rank(i) = k]]

\* SELECT * FROM gallery ORDER BY uploaded_at DESC.  uploaded_at is the
\* only key: SQLite's sorter leaves rows with equal keys in the order of the
\* table scan, which is rowid order.
SelectGallery(table) ==
    LET n == Len(table)
        Before(j, i) ==
            \/ table[j].uploaded_at > table[i].uploaded_at
            \/ table[j].uploaded_at = table[i].uploaded_at /\ j < i
        Rank(i) == 1 + Cardinality({j \in 1..n : Before(j, i)})
    IN  [k \in 1..n |-> table[CHOOSE i \in 1..n : Rank(i) = k]]

(***************************************************************************)
(* GET /gallery                                                            *)
(***************************************************************************)
GetGallery ==
    /\ running
    /\ res' = Response("GET /gallery", 200, "", SelectGallery(gallery))
    /\ UNCHANGED <<running, people, gallery, files, clock, patch, overlap, req,
                 nUploads, nIngested, crashed, state>>

(***************************************************************************)
(* POST /gallery/upload: upload.single('photo'), then the handler.         *)
(***************************************************************************)
FileNames ==
    {<<"b", ".", "p", "n", "g">>,
     <<"a", ".", "J", "p", "e", "g">>,
     <<"a", ".", "J", "P", "G">>,
     <<"a", ".", "g", "i", "f">>,
     <<"a", ".", "t", "x", "t">>,
     <<"p", "n", "g">>,
     <<".", "p", "n", "g">>,
     <<"a", ".", "p", "n", "g", ".">>,
     <<"a", ".", "p", "n", "g", ".", "g", "i", "f">>}

Sizes == {1, FileSizeLimit, FileSizeLimit + 1}

\* The multipart field the file part comes in.
FieldNames == {"photo", "image"}

Hosts == {"localhost:3001"}

\* Math.round(Math.random() * 1e9)
Randoms == {7, 8}

\* The file parts clients send: in field 'photo' every name with one
\* byte and beach.png (b.png) at every size; b.png in each other field.
FileParts ==
    [fieldname : {"photo"}, originalname : FileNames, size : {1}] \cup
    [fieldname : FieldNames, originalname : {<<"b", ".", "p", "n", "g">>}, size : Sizes]

\* No file part at all: multer calls next() with req.file undefined and the
\* handler answers.
PostNoFile ==
    /\ running
    /\ res' = Response("POST /gallery/upload", 400, "No file uploaded", <<>>)
    /\ UNCHANGED <<running, people, gallery, files, clock, patch, overlap, req,
                 nUploads, nIngested, crashed, state>>

\* upload.any(): a file part is taken from whatever field it comes in.
MutMulterRefusalAnyField(file) ==
    IF ~fileFilter(file.originalname) THEN "Invalid file type" ELSE "none"

\* What multer refuses before storing: a file part in a field other than
\* 'photo' (LIMIT_UNEXPECTED_FILE), then a name fileFilter rejects.
MulterRefusal(file) ==
    IF file.fieldname # "photo" THEN "Unexpected field"
    ELSE IF ~fileFilter(file.originalname) THEN "Invalid file type"
    ELSE "none"

\* The route has no error handler: multer's next(err) ends in Express's
\* default one, which answers 500 for an error without a status.
ErrorResponse(message) == Response("POST /gallery/upload", 500, message, <<>>)

PostRefused(file) ==
    /\ running
    /\ MulterRefusal(file) # "none"
    /\ res' = ErrorResponse(MulterRefusal(file))
    /\ UNCHANGED <<running, people, gallery, files, clock, patch, overlap, req,
                 nUploads, nIngested, crashed, state>>

\* diskStorage._handleFile: name the file and stream it to the directory.
PostStore(file, host, random) ==
    /\ running
    /\ MulterRefusal(file) = "none"
    /\ nUploads < MaxUploads
    /\ nUploads' = nUploads + 1
    /\ LET name == StorageName(clock, random, file.originalname)
       IN  /\ files' = WriteFile(files, name, file.originalname)
           /\ req' = req (+) SetToBag({[originalname |-> file.originalname,
                                        size |-> file.size, host |-> host,
                                        filename |-> name]})
    /\ UNCHANGED <<running, people, gallery, clock, patch, overlap, nIngested, res,
                 crashed, state>>

\* A limit that the file of exactly limits.fileSize bytes hits too.
MutTruncatedInclusive(size) == size >= FileSizeLimit

\* busboy cuts a file stream off, and multer aborts the request, when the
\* file has more bytes than limits.fileSize.
Truncated(size) == size > FileSizeLimit

\* The stream hit limits.fileSize: multer removes what it stored and
\* passes LIMIT_FILE_SIZE on.
PostTooLarge(r) ==
    /\ running
    /\ BagIn(r, req)
    /\ Truncated(r.size)
    /\ files' = RemoveFile(files, r.filename)
    /\ req' = req (-) SetToBag({r})
    /\ res' = ErrorResponse("File too large")
    /\ UNCHANGED <<running, people, gallery, clock, patch, overlap, nUploads,
                 nIngested, crashed, state>>

\* The handler, with req.file set.
PostInsert(r) ==
    /\ running
    /\ BagIn(r, req)
    /\ ~Truncated(r.size)
    /\ LET url == Url("http", r.host, r.filename)
       IN  /\ gallery' = InsertPhoto(gallery, r.originalname, url, clock)
           /\ res' = Response("POST /gallery/upload", 200, "",
                              <<[id |-> gallery'[Len(gallery')].id, url |-> url]>>)
    /\ nIngested' = nIngested + 1
    /\ req' = req (-) SetToBag({r})
    /\ UNCHANGED <<running, people, files, clock, patch, overlap, nUploads, crashed, state>>

Post ==
    \/ PostNoFile
    \/ \E file \in FileParts : PostRefused(file)
    \/ \E file \in FileParts, host \in Hosts, random \in Randoms :
           PostStore(file, host, random)
    \/ \E r \in BagToSet(req) : PostTooLarge(r)
    \/ \E r \in BagToSet(req) : PostInsert(r)

\* The keys of a body that name a column PATCH may set.
Recognized(body) == DOMAIN body \cap {"task_status", "transport_type", "eta", "payment_status"}

(***************************************************************************)
(* Specifications.  SpecMembers: the member store under every body.        *)
(* SpecGallery: the gallery store.  SpecConcurrent: the member store with  *)
(* two PATCH requests in flight.  Spec: the whole service.  SpecUi: the    *)
(* browser UI's people list.                                               *)
(***************************************************************************)
NextMembers ==
    \/ Startup
    \/ Stop
    \/ GetPeople
    \/ \E id \in IdParams, body \in Bodies : PatchArrives(id, body)
    \/ Patch

SpecMembers == Init /\ [][NextMembers]_vars

NextGallery ==
    \/ Startup
    \/ Stop
    \/ Tick
    \/ GetGallery
    \/ Post

SpecGallery == Init /\ [][NextGallery]_vars

\* The member store under PATCH requests that overlap: of members 1 and 2
\* and the unknown 3, with any of the keys eta and payment_status.
ConcurrentBodies ==
    {b \in ColumnBodies : DOMAIN b \subseteq {"eta", "payment_status"}}

NextConcurrent ==
    \/ Startup
    \/ Stop
    \/ GetPeople
    \/ \E id \in IdParams, body \in ConcurrentBodies : PatchArrives(id, body)
    \/ \E id \in IdParams, body \in ConcurrentBodies, place \in {1, 2} :
           PatchArrivesToo(id, body, place)
    \/ Patch

SpecConcurrent == Init /\ [][NextConcurrent]_vars

\* The whole service, with the PATCH requests of the spec's scenario: of
\* member 1, the body with none of the columns' keys or with payment_status
\* paid.
ScenarioBodies ==
    {b \in Bodies : Recognized(b) = {} \/ b = [payment_status |-> "paid"]}

Next ==
    \/ NextGallery
    \/ GetPeople
    \/ \E id \in {1}, body \in ScenarioBodies : PatchArrives(id, body)
    \/ Patch

Spec == Init /\ [][Next]_vars

\* The browser UI on its own.
SpecUi == Init /\ [][NextUi]_vars

(***************************************************************************)
(* The member store.                                                       *)
(***************************************************************************)
Exists(id) == \E i \in 1..Len(people) : people[i].id = id

\* What a PATCH of member id with body must leave in the table.
Patched(id, body) ==
    /\ Len(people') = Len(people)
    /\ \A i \in 1..Len(people) :
          IF people[i].id = id
          THEN \A col \in Columns :
                  people'[i][col] =
                      IF col \in Recognized(body) THEN body[col] ELSE people[i][col]
          ELSE people'[i] = people[i]

\* C1: a PATCH of an existing member whose body has a recognized key sets
\* exactly the recognized keys it carries, to the values it carries, and
\* leaves the member's other columns (id and name too, whatever else the
\* body carries), the other members and the gallery as they were.
C1_PatchSetsExactlySupplied ==
    [][(Patch /\ Exists(patch[1].id) /\ Recognized(patch[1].body) # {})
          => Patched(patch[1].id, patch[1].body) /\ UNCHANGED <<gallery, files>>]_vars

\* A PATCH, accepted, has changed Alice and left her name.
C1_Witness ==
    /\ res.op = "PATCH /people"
    /\ res.status = 200
    /\ Len(people) = 2
    /\ people[1].payment_status = "paid"
    /\ people[1].eta = "18:00"
    /\ people[1].name = "Alice"
    /\ people[2].payment_status = "unpaid"

\* C2: a PATCH whose body has no recognized key, whatever the id, is answered
\* 400 'No valid fields provided' and writes nothing.
C2_NoRecognizedKeyIsRejected ==
    [][(Patch /\ Recognized(patch[1].body) = {})
          => /\ res'.status = 400
             /\ res'.message = "No valid fields provided"
             /\ UNCHANGED <<people, gallery, files>>]_vars

\* A PATCH has been rejected, on a table an earlier PATCH changed.
C2_Witness ==
    /\ res.op = "PATCH /people"
    /\ res.status = 400
    /\ Len(people) = 2
    /\ people[2].task_status = "done"

\* C3: a startup seeds two rows into an empty people table and changes
\* nothing in one that has rows; the table never has more than two rows.
C3_SeedingIsIdempotent ==
    /\ [](Len(people) <= 2)
    /\ [][Startup =>
            /\ IF people = <<>> THEN Len(people') = 2 ELSE people' = people
            /\ UNCHANGED <<gallery, files>>]_vars

\* The process runs again, having sent nothing yet, on the table a PATCH of
\* an earlier run changed.
C3_Witness ==
    /\ running
    /\ res = NoResponse
    /\ Len(people) = 2
    /\ people[1].payment_status = "paid"

\* C4: the first startup leaves GET /people two rows to return, Alice with
\* id 1 and Bob with another id, both pending and unpaid; and every GET
\* /people returns two rows, Alice's with id 1 first and Bob's second.
C4_SeedIsAliceAndBob ==
    /\ [][(Startup /\ people = <<>>) =>
            LET rows == SelectPeople(people')
            IN  /\ Len(rows) = 2
                /\ rows[1].name = "Alice" /\ rows[1].id = 1
                /\ rows[2].name = "Bob" /\ rows[2].id # rows[1].id
                /\ \A i \in 1..2 : /\ rows[i].payment_status = "unpaid"
                                   /\ rows[i].task_status = "pending"]_vars
    /\ [](res.op = "GET /people" =>
            /\ Len(res.body) = 2
            /\ res.body[1].name = "Alice" /\ res.body[1].id = 1
            /\ res.body[2].name = "Bob" /\ res.body[2].id # 1)

\* GET /people has returned the two seeded rows, untouched.
C4_Witness ==
    /\ res.op = "GET /people"
    /\ Len(res.body) = 2
    /\ res.body[1].name = "Alice" /\ res.body[2].name = "Bob"
    /\ \A i \in 1..2 : /\ res.body[i].payment_status = "unpaid"
                       /\ res.body[i].task_status = "pending"

(***************************************************************************)
(* The gallery store.                                                      *)
(***************************************************************************)
Descending(rows) ==
    \A i \in 1..Len(rows) - 1 : rows[i].uploaded_at >= rows[i + 1].uploaded_at

\* C5: GET /gallery returns as many rows as ingests have succeeded, in
\* descending order of uploaded_at, and a second GET /gallery with nothing
\* answered in between returns the same rows in the same order.
C5_GalleryListsEveryIngest ==
    /\ [](res.op = "GET /gallery" =>
            /\ Len(res.body) = nIngested
            /\ Descending(res.body))
    /\ [][(GetGallery /\ res.op = "GET /gallery") => res'.body = res.body]_vars

\* GET /gallery has returned two rows of different seconds.
C5_Witness ==
    /\ res.op = "GET /gallery"
    /\ Len(res.body) = 2
    /\ res.body[1].uploaded_at > res.body[2].uploaded_at

\* C6: right after a successful ingest the row it created is the first one
\* GET /gallery returns.
C6_NewestFirst ==
    [][\A r \in BagToSet(req) :
          PostInsert(r) => SelectGallery(gallery')[1].id = res'.body[1].id]_vars

\* C7: a file part in field 'photo' is stored exactly when the lower-cased
\* extension of its name is .jpg, .jpeg or .png; any other is answered 400
\* 'Invalid file type' and adds no row and no file.
C7_ExtensionFilter ==
    [][\A file \in FileParts :
          file.fieldname = "photo" =>
            /\ PostRefused(file) =>
                 /\ toLowerCase(extname(file.originalname)) \notin allowed
                 /\ res'.status = 400
                 /\ res'.message = "Invalid file type"
                 /\ UNCHANGED <<gallery, files>>
            /\ \A host \in Hosts, random \in Randoms :
                 PostStore(file, host, random) =>
                     toLowerCase(extname(file.originalname)) \in allowed]_vars

C9_NoPhotoFileIsNoFileUploaded ==
    [][(\/ PostNoFile
        \/ \E file \in FileParts : file.fieldname # "photo" /\ PostRefused(file))
          => /\ res'.status = 400
             /\ res'.message = "No file uploaded"
             /\ UNCHANGED <<gallery, files>>]_vars

\* C9 as amended: an upload with no file part is answered 400 'No file
\* uploaded'; one whose file part is in another field than 'photo' is refused
\* by multer as 'Unexpected field' and never stored; neither changes the
\* gallery or the directory.
C9_NoFileUploaded ==
    /\ [][PostNoFile =>
            /\ res'.status = 400
            /\ res'.message = "No file uploaded"
            /\ UNCHANGED <<people, gallery, files>>]_vars
    /\ [][\A file \in FileParts :
            file.fieldname # "photo" =>
              /\ PostRefused(file) =>
                   /\ res'.status >= 400
                   /\ res'.message = "Unexpected field"
                   /\ UNCHANGED <<people, gallery, files>>
              /\ \A host \in Hosts, random \in Randoms :
                   ~PostStore(file, host, random)]_vars

\* An upload without a file has been answered, the gallery holding a row.
C9_Witness ==
    /\ res.op = "POST /gallery/upload"
    /\ res.status = 400
    /\ res.message = "No file uploaded"
    /\ Len(gallery) = 1
    /\ Cardinality(files) = 1

C11_UnknownIdIsNoOp ==
    [][(Patch /\ ~Exists(patch[1].id) /\ Recognized(patch[1].body) # {})
          => /\ res'.status = 200
             /\ res'.message = ""
             /\ res'.body = <<>>
             /\ UNCHANGED <<people, gallery, files>>]_vars

\* A PATCH of an unknown id has been answered 200 with nothing, the two
\* members being as seeded.
C11_Witness ==
    /\ res.op = "PATCH /people"
    /\ res.status = 200
    /\ res.body = <<>>
    /\ Len(people) = 2
    /\ \A i \in 1..2 : people[i].payment_status = "unpaid" /\ people[i].eta = ""

\* The row of member id in a table.
RowOf(table, id) == table[CHOOSE i \in 1..Len(table) : table[i].id = id]

\* C12: a PATCH of an existing member with a recognized key is answered 200
\* with one record of the six columns, which is the member's row in the
\* table as the handler leaves it and has every recognized key of the body
\* at the body's value; this with other PATCH requests in flight.
C12_ResponseIsStoredRow ==
    [][(Patch /\ Exists(patch[1].id) /\ Recognized(patch[1].body) # {})
          => /\ res'.status = 200
             /\ Len(res'.body) = 1
             /\ DOMAIN res'.body[1] =
                   {"id", "name", "task_status", "transport_type", "eta", "payment_status"}
             /\ res'.body[1].id = patch[1].id
             /\ res'.body[1] = RowOf(people', patch[1].id)
             /\ \A k \in Recognized(patch[1].body) : res'.body[1][k] = patch[1].body[k]]_vars

\* Bob's PATCH of both keys has been answered with his row, while a PATCH
\* that arrived during it is still in flight.
C12_Witness ==
    /\ res.op = "PATCH /people"
    /\ res.status = 200
    /\ Len(res.body) = 1
    /\ res.body[1].name = "Bob"
    /\ res.body[1].eta = "18:00"
    /\ res.body[1].payment_status = "paid"
    /\ Len(patch) = 1
    /\ overlap # <<>>

(***************************************************************************)
(* The gallery store: storage names, records and files.                    *)
(***************************************************************************)
\* The storage name a photo record's url ends in.
NameIn(row) == row.url[Len(row.url)]

\* The uploads in flight that are within the size limit.
Accepted == {r \in BagToSet(req) : ~Truncated(r.size)}

\* C13: the storage names of the accepted ingests, in flight or recorded,
\* are pairwise distinct: no two uploads in flight have the same one, none
\* in flight has the one of a photo record, and no two photo records have
\* the same url.
C13_DistinctStorageNames ==
    /\ \A r \in Accepted : CopiesIn(r, req) = 1
    /\ \A r1, r2 \in Accepted : r1 # r2 => r1.filename # r2.filename
    /\ \A r \in Accepted : \A i \in 1..Len(gallery) : NameIn(gallery[i]) # r.filename
    /\ \A i, j \in 1..Len(gallery) : i # j => gallery[i].url # gallery[j].url

\* C14: the insert of an upload adds exactly one photo record, after the
\* ones there are: its filename is the name the uploader gave, not the
\* storage name, its url is http://<host of the request>/uploads/<storage
\* name>, and the response carries that record's id and url.
C14_RecordOfIngest ==
    [][\A r \in BagToSet(req) :
          PostInsert(r) =>
            LET row == gallery'[Len(gallery')]
            IN  /\ Len(gallery') = Len(gallery) + 1
                /\ SubSeq(gallery', 1, Len(gallery)) = gallery
                /\ row.filename = r.originalname
                /\ Len(row.filename) # Len(r.filename) \/ row.filename # r.filename
                /\ row.url = <<"http", r.host, "uploads", r.filename>>
                /\ res'.status = 200
                /\ res'.body = <<[id |-> row.id, url |-> row.url]>>]_vars

\* The ingest of a.Jpeg has been answered with id 2 and the url of the
\* second record, whose filename is a.Jpeg.
C14_Witness ==
    /\ res.op = "POST /gallery/upload"
    /\ res.status = 200
    /\ Len(gallery) = 2
    /\ res.body[1].id = 2
    /\ res.body[1].url = gallery[2].url
    /\ gallery[2].filename = <<"a", ".", "J", "p", "e", "g">>
    /\ NameIn(gallery[2])[3] = <<".", "J", "p", "e", "g">>

(***************************************************************************)
(* Two PATCH requests in flight together.                                  *)
(***************************************************************************)
\* What two PATCH requests, first handled before second, must leave of a
\* row: a column only one of them names has that one's value, a column both
\* name has the second's, a column neither names is as it was.
LastWriteWins(row, first, second) ==
    [col \in DOMAIN row |->
        IF row.id = second.id /\ col \in Recognized(second.body) THEN second.body[col]
        ELSE IF row.id = first.id /\ col \in Recognized(first.body) THEN first.body[col]
        ELSE row[col]]

\* C15: when the handlers of two PATCH requests of the same member that were
\* in flight together have both run, the table has the rows it had when the
\* second of them arrived, and the member's row changed as LastWriteWins
\* says, the handler that ran second being the last write.
C15_LastWriteWinsPerField ==
    (/\ overlap # <<>>
     /\ patch = <<>>
     /\ overlap[1].first.id = overlap[1].second.id)
      => /\ Len(people) = Len(overlap[1].people)
         /\ \A i \in 1..Len(people) :
               people[i] = LastWriteWins(overlap[1].people[i],
                                         overlap[1].first, overlap[1].second)

\* Two PATCH requests of Alice in flight together have both been handled:
\* the first set eta and payment_status, the second eta only; eta is the
\* second's and payment_status the first's.
C15_Witness ==
    /\ overlap # <<>>
    /\ patch = <<>>
    /\ overlap[1].first = [id |-> 1, body |-> [eta |-> "18:00", payment_status |-> "paid"]]
    /\ overlap[1].second = [id |-> 1, body |-> [eta |-> ""]]
    /\ overlap[1].people[1].eta = "18:00"
    /\ people[1].eta = ""
    /\ people[1].payment_status = "paid"
    /\ res.op = "PATCH /people"

(***************************************************************************)
(* Records and files.                                                      *)
(***************************************************************************)
\* C16: in every state, for every photo record the directory has a file of
\* the storage name its url ends in, and that file holds what was uploaded
\* under the record's filename.
C16_RecordsHaveFiles ==
    \A i \in 1..Len(gallery) :
        \E f \in files : f.name = NameIn(gallery[i]) /\ f.from = gallery[i].filename

\* The photo records whose url ends in a storage name.
RecordsOf(name) == {i \in 1..Len(gallery) : NameIn(gallery[i]) = name}

\* The files no photo record refers to and no upload in flight will.
Orphans ==
    {f \in files : /\ RecordsOf(f.name) = {}
                   /\ ~\E r \in BagToSet(req) : r.filename = f.name}

\* C17: an ingest writes its file in one step and inserts its record in a
\* later one, which leaves the directory alone; a crash between the two
\* leaves the file without record; no step but a crash leaves a new file
\* without record; and as long as there has been no crash, whenever no
\* upload is in flight every file has exactly one photo record.
C17_OrphanOnlyByCrash ==
    /\ [][\A r \in BagToSet(req) :
            /\ PostInsert(r) => files' = files /\ Len(gallery') = Len(gallery) + 1
            /\ (Stop /\ RecordsOf(r.filename) = {} /\ \E f \in files : f.name = r.filename)
                 => \E f \in Orphans' : f.name = r.filename]_vars
    /\ [][\A file \in FileParts, host \in Hosts, random \in Randoms :
            PostStore(file, host, random) =>
                /\ gallery' = gallery
                /\ \E f \in files' : f.name = StorageName(clock, random, file.originalname)]_vars
    /\ [][(Orphans' \ Orphans # {}) => Stop /\ req # EmptyBag]_vars
    /\ []((~crashed /\ req = EmptyBag) =>
            \A f \in files : Cardinality(RecordsOf(f.name)) = 1)

(***************************************************************************)
(* Lifecycles.                                                             *)
(***************************************************************************)
\* C18: once the people table has rows, no step (GET, PATCH, upload, stop,
\* startup) adds or removes one or changes the id or the name of one; and
\* the ids are pairwise distinct.
C18_MembersAreFixed ==
    /\ [][people # <<>> =>
            /\ Len(people') = Len(people)
            /\ \A i \in 1..Len(people) :
                  people'[i].id = people[i].id /\ people'[i].name = people[i].name]_vars
    /\ [](\A i, j \in 1..Len(people) : i # j => people[i].id # people[j].id)

\* The process runs again after a PATCH changed Alice and an upload was
\* ingested: Alice and Bob are there under ids 1 and 2.
C18_Witness ==
    /\ running
    /\ res = NoResponse
    /\ Len(gallery) = 1
    /\ Len(people) = 2
    /\ people[1].payment_status = "paid"
    /\ people[1].name = "Alice" /\ people[1].id = 1
    /\ people[2].name = "Bob" /\ people[2].id = 2

\* C19: a step that changes the gallery table is the insert of an upload,
\* answered 200: it leaves every row there is as it is and in its place and
\* adds one row, whose id is greater than every id there is; no other
\* step, stop and startup included, changes the table; and the ids are
\* pairwise distinct.
C19_GalleryIsAppendOnly ==
    /\ [][gallery' # gallery =>
            /\ \E r \in BagToSet(req) : PostInsert(r)
            /\ res'.op = "POST /gallery/upload" /\ res'.status = 200
            /\ Len(gallery') = Len(gallery) + 1
            /\ SubSeq(gallery', 1, Len(gallery)) = gallery
            /\ \A i \in 1..Len(gallery) : gallery'[Len(gallery')].id > gallery[i].id]_vars
    /\ [][(Stop \/ Startup \/ GetGallery \/ PostNoFile) => gallery' = gallery]_vars
    /\ [](\A i, j \in 1..Len(gallery) : i # j => gallery[i].id # gallery[j].id)

\* Two uploads of b.png, of different seconds, were ingested, and the
\* process has stopped and runs again: rows 1 and 2 are there.
C19_Witness ==
    /\ running
    /\ res = NoResponse
    /\ Len(gallery) = 2
    /\ gallery[1].id = 1 /\ gallery[2].id = 2
    /\ gallery[1].filename = gallery[2].filename
    /\ gallery[1].uploaded_at < gallery[2].uploaded_at

\* C20: whenever the process is listening the people table has rows: the
\* seed has run before the first request is served, and no GET /people is
\* answered with an empty list.
C20_NeverEmptyWhenServing ==
    /\ [](running => Len(people) >= 1)
    /\ [][GetPeople => Len(res'.body) >= 1]_vars
    /\ [](res.op = "GET /people" => res.body # <<>>)

\* GET /people, the first request this process serves after its startup
\* on an empty store, has returned Alice and Bob.
C20_Witness ==
    /\ running
    /\ res.op = "GET /people"
    /\ res.status = 200
    /\ Len(res.body) = 2
    /\ res.body = people
    /\ patch = <<>>
    /\ people[1].transport_type = "car"
    /\ people[2].transport_type = "plane"

(***************************************************************************)
(* The browser UI: paying and unpaying.                                    *)
(***************************************************************************)
\* C21: markPaid(id) negates paid of every person with that id and sets the
\* person's amount to the budget per person when paid becomes true and to
\* 0 when it becomes false, leaving the person's id, name and transport,
\* every other person, the number and order of people and the budget; and
\* for a person with paid false and amount 0, markPaid applied twice leaves
\* the people as they are.
C21_MarkPaidToggles ==
    /\ [][\A id \in UiIds :
            markPaid(id) =>
              /\ state'.budgetPerPerson = state.budgetPerPerson
              /\ Len(state'.people) = Len(state.people)
              /\ \A i \in 1..Len(state.people) :
                    LET p == state.people[i]
                        q == state'.people[i]
                    IN  IF p.id = id
                        THEN /\ q.paid = ~p.paid
                             /\ q.amount = IF q.paid THEN state.budgetPerPerson ELSE 0
                             /\ q.id = p.id /\ q.name = p.name
                             /\ q.transport = p.transport
                             /\ DOMAIN q = DOMAIN p
                        ELSE q = p]_vars
    /\ [](\A i \in 1..Len(state.people) :
            LET p == state.people[i]
                once == MarkPaidUpdater(state.people, p.id, state.budgetPerPerson)
                twice == MarkPaidUpdater(once, p.id, state.budgetPerPerson)
            IN  (~p.paid /\ p.amount = 0) =>
                  /\ once[i].paid /\ once[i].amount = state.budgetPerPerson
                  /\ ~twice[i].paid /\ twice[i].amount = 0
                  /\ twice = state.people)

\* With the budget raised to 200, Bogdan has been marked paid, at 200;
\* Rishabh is unpaid at 0 and Dav unpaid with the 50 typed into his row.
C21_Witness ==
    /\ state.budgetPerPerson = 200
    /\ state.people[1].paid /\ state.people[1].amount = 200
    /\ state.people[1].name = "Bogdan"
    /\ ~state.people[2].paid /\ state.people[2].amount = 0
    /\ ~state.people[3].paid /\ state.people[3].amount = 50

====
